---- MODULE Spec2Model ----
(***************************************************************************)
(* A model of ranger_mcp.py: the JSON log formatter, the six MCP tool      *)
(* handlers and the __main__ block that runs the server.                   *)
(*                                                                         *)
(* A Python str is a TLA+ string. The one character of the program's      *)
(* texts outside ASCII is the full-width exclamation mark U+FF01, which a  *)
(* TLA+ string cannot hold: FULLWIDTH_EXCLAMATION stands for it, written   *)
(* with a character that no text of the program and no input contains.     *)
(* The handlers are coroutines without an await, so the event loop runs    *)
(* each of them from its first line to its return as one step.             *)
(***************************************************************************)
EXTENDS Integers, Sequences, FiniteSets, TLC

VARIABLES
    pc,      \* where the __main__ block is
    exit,    \* how the process ended: [code, cause, at]
    stderr,  \* the lines written to standard error, in order
    calls,   \* the tool calls handled so far, in order, with their outcome
    clock    \* the last value datetime.datetime.now() returned

vars == <<pc, exit, stderr, calls, clock>>

\* ------------------------------------------------------------------ bounds
MaxCalls == 2    \* tool calls handled in one run of the process
MaxClock == 1    \* the clock's last tick (a tick is half a second)

\* ----------------------------------------------------------------- strings
FULLWIDTH_EXCLAMATION == "^"

CharAt(s, i) == SubSeq(s, i, i)

IsAscii(c) == c # FULLWIDTH_EXCLAMATION

\* The literal "Ranger！" of the handlers.
RangerText == "Ranger" \o FULLWIDTH_EXCLAMATION

\* The literal "Ranger！ Ranger！ Ranger！" of ranger_with_options.
ExtendedText ==
    "Ranger" \o FULLWIDTH_EXCLAMATION \o " Ranger" \o FULLWIDTH_EXCLAMATION
        \o " Ranger" \o FULLWIDTH_EXCLAMATION

RECURSIVE Join(_, _)
Join(parts, sep) ==
    IF Len(parts) = 0 THEN ""
    ELSE IF Len(parts) = 1 THEN parts[1]
    ELSE parts[1] \o sep \o Join(Tail(parts), sep)

\* ----------------------------------------------------------- Python values
NoneValue == [tag |-> "None"]
Absent == [tag |-> "absent"]          \* an argument the caller did not pass
StrValue(s) == [tag |-> "str", s |-> s]
IntValue(n) == [tag |-> "int", n |-> n]
DictValue(items) == [tag |-> "dict", items |-> items]  \* items: <<key, value>> pairs, in insertion order

Digit(n) == SubSeq("0123456789", n + 1, n + 1)

RECURSIVE Decimal(_)
Decimal(n) == IF n < 10 THEN Digit(n) ELSE Decimal(n \div 10) \o Digit(n % 10)

\* repr() of a str without a quote or a backslash in it
Repr(v) ==
    IF v.tag = "str" THEN "'" \o v.s \o "'"
    ELSE IF v.tag = "int" THEN Decimal(v.n)
    ELSE "None"

\* str(x): a str is itself, a dict is "{'k': v, ...}", None is "None"
PyStr(v) ==
    IF v.tag = "str" THEN v.s
    ELSE IF v.tag = "dict" THEN
        "{" \o Join([i \in 1..Len(v.items) |->
                            Repr(StrValue(v.items[i][1])) \o ": " \o Repr(v.items[i][2])],
                        ", ") \o "}"
    ELSE Repr(v)

Keys(items) == {items[i][1] : i \in 1..Len(items)}

HasKey(items, k) == k \in Keys(items)

Get(items, k) == items[CHOOSE i \in 1..Len(items) : items[i][1] = k][2]

\* dict.update(): a key already present keeps its place and takes the new value
RECURSIVE Update(_, _)
Update(items, more) ==
    IF Len(more) = 0 THEN items
    ELSE LET k == more[1][1]
             v == more[1][2]
             next == IF HasKey(items, k)
                     THEN [i \in 1..Len(items) |-> IF items[i][1] = k THEN <<k, v>> ELSE items[i]]
                     ELSE Append(items, <<k, v>>)
         IN Update(next, Tail(more))

\* ------------------------------------------------------------- json.dumps
EscapeChar(c, ensure_ascii) ==
    IF c = "\"" THEN "\\\""
    ELSE IF c = "\\" THEN "\\\\"
    ELSE IF ensure_ascii /\ ~IsAscii(c) THEN "\\uff01"
    ELSE c

RECURSIVE EscapeFrom(_, _, _)
EscapeFrom(s, i, ensure_ascii) ==
    IF i > Len(s) THEN ""
    ELSE EscapeChar(CharAt(s, i), ensure_ascii) \o EscapeFrom(s, i + 1, ensure_ascii)

\* A string with nothing to escape is written as it is.
Escape(s, ensure_ascii) ==
    IF \A i \in 1..Len(s) : EscapeChar(CharAt(s, i), ensure_ascii) = CharAt(s, i)
    THEN s
    ELSE EscapeFrom(s, 1, ensure_ascii)

JsonString(s, ensure_ascii) == "\"" \o Escape(s, ensure_ascii) \o "\""

JsonValue(v, ensure_ascii) ==
    IF v.tag = "str" THEN JsonString(v.s, ensure_ascii)
    ELSE IF v.tag = "int" THEN Decimal(v.n)
    ELSE "null"

\* json.dumps of a dict of str keys: '{"k": v, "k2": v2}'
JsonDumps(items, ensure_ascii) ==
    "{" \o Join([i \in 1..Len(items) |->
                        JsonString(items[i][1], ensure_ascii) \o ": "
                            \o JsonValue(items[i][2], ensure_ascii)],
                    ", ") \o "}"

\* ------------------------------------------------------------------ time
Times == 0..MaxClock

\* datetime.isoformat(): the fraction is left out when the microsecond is 0
IsoFormat(t) ==
    "2025-01-01T00:00:" \o (IF t \div 2 < 10 THEN "0" ELSE "") \o Decimal(t \div 2)
        \o (IF t % 2 = 0 THEN "" ELSE ".500000")

\* --------------------------------------------------------------- logging
INFO == 20
ERROR == 40

\* A slip in the configuration: the root level set above INFO.
RootLevelError == ERROR

\* logging.basicConfig(level=logging.INFO): the level the loggers inherit
RootLevel == INFO

\* logging.getLogger(__name__), the file being run as a script
LoggerName == "__main__"

\* The attributes every LogRecord has, before the extra ones are added.
LogRecordAttributes ==
    { "args", "created", "exc_info", "exc_text",
      "filename", "funcName", "levelname", "levelno",
      "lineno", "module", "msecs", "msg", "name",
      "pathname", "process", "processName",
      "relativeCreated", "stack_info", "thread",
      "threadName" }

\* Logger.makeRecord: each key of extra becomes an attribute of the record, and
\* a key that would overwrite one raises KeyError.
MakeRecord(levelname, msg, extra) ==
    IF \E k \in Keys(extra) :
           k \in LogRecordAttributes \cup {"message", "asctime"}
    THEN [raised |-> "KeyError"]
    ELSE [raised |-> "", name |-> LoggerName, levelname |-> levelname, msg |-> msg,
          exc_info |-> FALSE, attrs |-> extra]

HasAttr(record, attr) == attr \in LogRecordAttributes \/ HasKey(record.attrs, attr)

\* JsonFormatter.format
Format(record, now) ==
    LET base == << <<"timestamp", StrValue(IsoFormat(now))>>,
                   <<"level", StrValue(record.levelname)>>,
                   <<"name", StrValue(record.name)>>,
                   <<"message", StrValue(record.msg)>> >>
        with_exc == IF record.exc_info
                    THEN Append(base, <<"exception", StrValue("Traceback")>>)
                    ELSE base
        log_record == IF HasAttr(record, "extra")
                      THEN Update(with_exc, Get(record.attrs, "extra").items)
                      ELSE with_exc
    IN JsonDumps(log_record, FALSE)

LogLine(text, call) == [kind |-> "log", text |-> text, call |-> call]

PrintLine(text) == [kind |-> "print", text |-> text, call |-> 0]

\* Logger.log up to StreamHandler.emit: what standard error holds afterwards, and
\* the exception the call raised, if any. call is the tool call that logs (0: none).
LoggerLog(out, level, levelname, msg, extra, now, call) ==
    IF level < RootLevel THEN [raised |-> "", stderr |-> out]
    ELSE LET record == MakeRecord(levelname, msg, extra)
         IN IF record.raised # ""
            THEN [raised |-> record.raised, stderr |-> out]
            ELSE [raised |-> "", stderr |-> Append(out, LogLine(Format(record, now), call))]

LoggerInfo(out, msg, extra, now, call) ==
    LoggerLog(out, INFO, "INFO", msg, extra, now, call)

LoggerError(out, msg, extra, now, call) ==
    LoggerLog(out, ERROR, "ERROR", msg, extra, now, call)

\* ------------------------------------------------------- the tools' inputs
Hello == StrValue("hello")

XIsOne == DictValue(<< <<"x", IntValue(1)>> >>)

InputTexts == {Absent, Hello, StrValue("json")}

OptionTypes == {Absent, StrValue("json"), StrValue("extended"), Hello}

ParamsInputs ==
    { [param1 |-> Absent, param2 |-> Absent, param3 |-> Absent],
      [param1 |-> Hello, param2 |-> IntValue(12), param3 |-> XIsOne] }

AnyRequests ==
    { [request |-> Absent, kwargs |-> DictValue(<<>>)],
      [request |-> Hello, kwargs |-> XIsOne] }

\* A parameter the caller left out takes its default.
Bind(v, default) == IF v = Absent THEN default ELSE v

\* ------------------------------------------------------------ the handlers
TextContent(text) == [type |-> "text", text |-> text]

Serving == pc = "serving" /\ Len(calls) < MaxCalls

\* The call being handled: calls are numbered in the order they are handled.
ThisCall == Len(calls) + 1

\* The end of a handler: what its log call left on standard error, and either the
\* list it returns or the exception that ended it.
Finish(tool, args, logged, content) ==
    /\ stderr' = logged.stderr
    /\ calls' = Append(calls,
                       [tool |-> tool, args |-> args,
                        outcome |-> IF logged.raised = "" THEN "returned" ELSE "raised",
                        exc |-> logged.raised,
                        content |-> IF logged.raised = "" THEN content ELSE <<>>,
                        stderrLen |-> Len(logged.stderr)])
    /\ UNCHANGED <<pc, exit>>

RangerResponse == <<TextContent(RangerText)>>

\* A slip in ranger_json: its object drifts from the one ranger_with_options builds.
JsonResponseRenamed(now) ==
    << TextContent(JsonDumps(<< <<"message", StrValue(RangerText)>>,
                                <<"timestamp", StrValue(IsoFormat(now))>> >>,
                             FALSE)) >>

JsonResponse(now) ==
    << TextContent(JsonDumps(<< <<"response", StrValue(RangerText)>>,
                                <<"timestamp", StrValue(IsoFormat(now))>> >>,
                             FALSE)) >>

\* A slip in ranger_with_options: "simple" is tested for and the last branch is
\* the extended one.
OptionsResponseSwapped(option_type, now) ==
    IF option_type = StrValue("json") THEN JsonResponse(now)
    ELSE IF option_type = StrValue("simple") THEN <<TextContent(RangerText)>>
    ELSE <<TextContent(ExtendedText)>>

OptionsResponse(option_type, now) ==
    IF option_type = StrValue("json") THEN
        << TextContent(JsonDumps(<< <<"response", StrValue(RangerText)>>,
                                    <<"timestamp", StrValue(IsoFormat(now))>> >>,
                                 FALSE)) >>
    ELSE IF option_type = StrValue("extended") THEN <<TextContent(ExtendedText)>>
    ELSE <<TextContent(RangerText)>>

ranger ==
    /\ Serving
    /\ \E t \in clock..MaxClock :
        /\ Finish("ranger", <<>>,
                  LoggerInfo(stderr, "ranger function was called", <<>>, t, ThisCall),
                  RangerResponse)
        /\ clock' = t

ranger_with_input ==
    /\ Serving
    /\ \E input_text \in InputTexts :
        IF input_text = Absent
        THEN \* input_text has no default: a call without it raises before the
             \* body runs
             /\ Finish("ranger_with_input", [input_text |-> input_text],
                       [raised |-> "TypeError", stderr |-> stderr], <<>>)
             /\ clock' = clock
        ELSE \E t \in clock..MaxClock :
             /\ Finish("ranger_with_input", [input_text |-> input_text],
                       LoggerInfo(stderr, "ranger_with_input function was called",
                                  << <<"input", input_text>> >>, t, ThisCall),
                       RangerResponse)
             /\ clock' = t

ranger_json ==
    /\ Serving
    /\ \E t1 \in clock..MaxClock : \E t2 \in t1..MaxClock :
        /\ Finish("ranger_json", <<>>,
                  LoggerInfo(stderr, "ranger_json function was called", <<>>, t1, ThisCall),
                  JsonResponse(t2))
        /\ clock' = t2

ranger_with_options ==
    /\ Serving
    /\ \E option \in OptionTypes :
        LET option_type == Bind(option, StrValue("simple"))
        IN \E t1 \in clock..MaxClock :
           \E t2 \in (IF option_type = StrValue("json") THEN t1..MaxClock ELSE {t1}) :
            /\ Finish("ranger_with_options", [option_type |-> option],
                      LoggerInfo(stderr, "ranger_with_options function was called",
                                 << <<"option", option_type>> >>, t1, ThisCall),
                      OptionsResponse(option_type, t2))
            /\ clock' = t2

ranger_with_params ==
    /\ Serving
    /\ \E given \in ParamsInputs :
        LET param1 == Bind(given.param1, NoneValue)
            param2 == Bind(given.param2, NoneValue)
            param3 == Bind(given.param3, NoneValue)
        IN \E t \in clock..MaxClock :
            /\ Finish("ranger_with_params", given,
                      LoggerInfo(stderr, "ranger_with_params was called",
                                 << <<"param1", param1>>, <<"param2", param2>>,
                                    <<"param3", StrValue(PyStr(param3))>> >>,
                                 t, ThisCall),
                      RangerResponse)
            /\ clock' = t

any_request ==
    /\ Serving
    /\ \E given \in AnyRequests : \E t \in clock..MaxClock :
        LET request == Bind(given.request, NoneValue)
            logged == LoggerInfo(stderr, "any_request was called",
                                 << <<"request", request>>,
                                    <<"args", StrValue(PyStr(given.kwargs))>> >>,
                                 t, ThisCall)
        IN /\ Finish("any_request", given, logged, RangerResponse)
           /\ clock' = IF logged.raised = "" THEN t ELSE clock

\* ------------------------------------------------------ the __main__ block
StartupBanner == "MCP server that responds 'Ranger!' to everything has started"

ShutdownBanner == "Shutting down Ranger MCP server"

\* What the interpreter writes when an exception reaches the top of the script.
Traceback == [kind |-> "traceback", text |-> "Traceback (most recent call last):", call |-> 0]

\* What mcp.run can raise that is an Exception, by its message.
ExceptionMessages == {"Broken pipe"}

NotExited == [code |-> -1, cause |-> "none", at |-> "none"]

InTry == pc \in {"start", "banner", "run", "serving"}

\* except KeyboardInterrupt: log, print the banner, sys.exit(0)
KeyboardInterruptHandler(out, now) ==
    [stderr |-> Append(LoggerInfo(out, "Server stopped by user", <<>>, now, 0).stderr,
                       PrintLine(ShutdownBanner)),
     code |-> 0]

\* A slip in the handler: the failure is logged and the process exits with 0.
ExceptionHandlerExitsZero(out, e, now) ==
    [stderr |-> LoggerError(out, "Failed to start server: " \o e, <<>>, now, 0).stderr,
     code |-> 0]

\* except Exception as e: log the error, sys.exit(1)
ExceptionHandler(out, e, now) ==
    [stderr |-> LoggerError(out, "Failed to start server: " \o e, <<>>, now, 0).stderr,
     code |-> 1]

Exit(cause, code) ==
    /\ pc' = "exited"
    /\ exit' = [code |-> code, cause |-> cause, at |-> pc]
    /\ UNCHANGED calls

\* logger.info("Starting Ranger MCP server")
Main_LogStarting ==
    /\ pc = "start"
    /\ \E t \in clock..MaxClock :
        /\ stderr' = LoggerInfo(stderr, "Starting Ranger MCP server", <<>>, t, 0).stderr
        /\ clock' = t
    /\ pc' = "banner"
    /\ UNCHANGED <<exit, calls>>

\* print("MCP server ... has started", file=sys.stderr)
Main_PrintStarted ==
    /\ pc = "banner"
    /\ stderr' = Append(stderr, PrintLine(StartupBanner))
    /\ pc' = "run"
    /\ UNCHANGED <<exit, calls, clock>>

\* mcp.run(transport="stdio") starts and serves tool calls
Main_McpRun ==
    /\ pc = "run"
    /\ pc' = "serving"
    /\ UNCHANGED <<exit, stderr, calls, clock>>

\* The user interrupts the process anywhere inside the try block.
Main_KeyboardInterrupt ==
    /\ InTry
    /\ \E t \in clock..MaxClock :
        LET h == KeyboardInterruptHandler(stderr, t)
        IN /\ stderr' = h.stderr
           /\ clock' = t
           /\ Exit("KeyboardInterrupt", h.code)

\* mcp.run raises an Exception, on starting or while it serves.
Main_Exception ==
    /\ pc \in {"run", "serving"}
    /\ \E e \in ExceptionMessages : \E t \in clock..MaxClock :
        LET h == ExceptionHandler(stderr, e, t)
        IN /\ stderr' = h.stderr
           /\ clock' = t
           /\ Exit("Exception", h.code)

\* mcp.run returns (standard input is at its end, at once or after some calls):
\* the script runs off its end.
Main_RunReturns ==
    /\ pc \in {"run", "serving"}
    /\ Exit("return", 0)
    /\ UNCHANGED <<stderr, clock>>

\* mcp.run raises a BaseException that is neither of the two caught: the
\* interpreter prints the traceback and the process ends with status 1.
Main_Uncaught ==
    /\ pc \in {"run", "serving"}
    /\ stderr' = Append(stderr, Traceback)
    /\ Exit("BaseException", 1)
    /\ UNCHANGED clock

\* ----------------------------------------------------------- specification
Init ==
    /\ pc = "start"
    /\ exit = NotExited
    /\ stderr = <<>>
    /\ calls = <<>>
    /\ clock \in Times

Next ==
    \/ Main_LogStarting
    \/ Main_PrintStarted
    \/ Main_McpRun
    \/ Main_KeyboardInterrupt
    \/ Main_Exception
    \/ Main_RunReturns
    \/ Main_Uncaught
    \/ ranger
    \/ ranger_with_input
    \/ ranger_json
    \/ ranger_with_options
    \/ ranger_with_params
    \/ any_request

Spec == Init /\ [][Next]_vars

\* The runs in which nothing ends the serve loop: the tools alone, behind the
\* start of the process.
Serve ==
    \/ Main_LogStarting
    \/ Main_PrintStarted
    \/ Main_McpRun
    \/ ranger
    \/ ranger_with_input
    \/ ranger_json
    \/ ranger_with_options
    \/ ranger_with_params
    \/ any_request

ServeSpec == Init /\ [][Serve]_vars

\* ------------------------------------------------------------------ claims
\* What a reader of a line or of a response does with it: json.loads of a flat
\* object, as json.dumps writes it.
\* The index of the quote that closes the string whose first character is at i.
RECURSIVE ClosingQuote(_, _)
ClosingQuote(text, i) ==
    IF CharAt(text, i) = "\"" THEN i
    ELSE IF CharAt(text, i) = "\\" THEN ClosingQuote(text, i + 2)
    ELSE ClosingQuote(text, i + 1)

RECURSIVE Unescape(_, _)
Unescape(raw, i) ==
    IF i > Len(raw) THEN ""
    ELSE IF CharAt(raw, i) = "\\" THEN
        IF CharAt(raw, i + 1) = "u"
        THEN FULLWIDTH_EXCLAMATION \o Unescape(raw, i + 6)
        ELSE CharAt(raw, i + 1) \o Unescape(raw, i + 2)
    ELSE CharAt(raw, i) \o Unescape(raw, i + 1)

ReadString(text, i) ==
    LET j == ClosingQuote(text, i)
        raw == SubSeq(text, i, j - 1)
    IN [s |-> IF \A k \in 1..Len(raw) : CharAt(raw, k) # "\\" THEN raw ELSE Unescape(raw, 1),
        next |-> j + 1]

RECURSIVE BareEnd(_, _)
BareEnd(text, i) == IF CharAt(text, i) \in {",", "}"} THEN i ELSE BareEnd(text, i + 1)

ReadBare(text, i) == [s |-> SubSeq(text, i, BareEnd(text, i) - 1), next |-> BareEnd(text, i)]

DigitValue(c) == CHOOSE n \in 0..9 : Digit(n) = c

RECURSIVE Number(_)
Number(s) ==
    IF Len(s) = 0 THEN 0
    ELSE 10 * Number(SubSeq(s, 1, Len(s) - 1)) + DigitValue(CharAt(s, Len(s)))

BareValue(s) == IF s = "null" THEN NoneValue ELSE IntValue(Number(s))

RECURSIVE ReadMembers(_, _, _)
ReadMembers(text, i, acc) ==
    IF CharAt(text, i) = "}" THEN acc
    ELSE IF CharAt(text, i) \in {",", " "} THEN ReadMembers(text, i + 1, acc)
    ELSE LET key == ReadString(text, i + 1)
             at == key.next + 2          \* past the ": " separator
             val == IF CharAt(text, at) = "\""
                    THEN LET r == ReadString(text, at + 1)
                         IN [v |-> StrValue(r.s), next |-> r.next]
                    ELSE LET r == ReadBare(text, at)
                         IN [v |-> BareValue(r.s), next |-> r.next]
         IN ReadMembers(text, val.next, Append(acc, <<key.s, val.v>>))

IsJsonObject(text) == Len(text) >= 2 /\ CharAt(text, 1) = "{" /\ CharAt(text, Len(text)) = "}"

JsonLoads(text) == ReadMembers(text, 2, <<>>)

Returned(i) == calls[i].outcome = "returned"

\* The log records on standard error that call i emitted.
LogEntriesOf(i) == {k \in 1..Len(stderr) : stderr[k].kind = "log" /\ stderr[k].call = i}

LogFields(k) == JsonLoads(stderr[k].text)

Printed(text) == {k \in 1..Len(stderr) : stderr[k].kind = "print" /\ stderr[k].text = text}

OnlyText(i) == calls[i].content[1].text

OptionCalls == {i \in DOMAIN calls : calls[i].tool = "ranger_with_options"}

Selected(i, option) == i \in OptionCalls /\ calls[i].args.option_type = StrValue(option)

JsonCalls == {i \in DOMAIN calls : calls[i].tool = "ranger_json" \/ Selected(i, "json")}

WithoutKey(items, key) == SelectSeq(items, LAMBDA kv : kv[1] # key)

IsPrefix(p, text) == Len(p) <= Len(text) /\ SubSeq(text, 1, Len(p)) = p

\* C1: every tool call, whatever its arguments, ends by returning a response and
\* never by raising an error.
C1_EveryCallSucceeds == \A i \in DOMAIN calls : calls[i].outcome = "returned" /\ calls[i].exc = ""

\* C2: the response of every call of every tool is a list of exactly one content
\* item of type "text", and the item of the plain tool ranger reads "Ranger！".
C2_OneTextItem ==
    \A i \in DOMAIN calls :
        /\ Len(calls[i].content) = 1
        /\ calls[i].content[1].type = "text"
        /\ calls[i].tool = "ranger" => OnlyText(i) = RangerText

\* C3: ranger_with_input, ranger_with_params and any_request answer "Ranger！" for
\* every argument value, an absent argument included: two calls of one of these
\* tools never differ in their response.
C3_ArgumentsIgnored ==
    \A i \in DOMAIN calls :
        calls[i].tool \in {"ranger_with_input", "ranger_with_params", "any_request"} =>
            /\ calls[i].content = <<[type |-> "text", text |-> RangerText]>>
            /\ \A j \in DOMAIN calls :
                   calls[j].tool = calls[i].tool => calls[j].content = calls[i].content

\* C4: ranger_with_options answers "Ranger！ Ranger！ Ranger！" for "extended", a JSON
\* object for "json", and for every other selector, and for none, what the plain
\* tool answers: "Ranger！".
C4_OptionsMapping ==
    \A i \in OptionCalls :
        /\ Returned(i)
        /\ Len(calls[i].content) = 1
        /\ calls[i].content[1].type = "text"
        /\ Selected(i, "extended") =>
               OnlyText(i) = RangerText \o " " \o RangerText \o " " \o RangerText
        /\ Selected(i, "json") =>
               /\ IsJsonObject(OnlyText(i))
               /\ OnlyText(i) # RangerText
        /\ ~Selected(i, "extended") /\ ~Selected(i, "json") =>
               /\ OnlyText(i) = RangerText
               /\ \A j \in DOMAIN calls :
                      calls[j].tool = "ranger" => calls[j].content = calls[i].content

C4_Witness ==
    /\ \E i \in OptionCalls : calls[i].args.option_type = Absent /\ Returned(i)
    /\ \E i \in OptionCalls : Selected(i, "extended") /\ Returned(i)

\* C5: the text of ranger_json and of ranger_with_options("json") is a JSON object
\* with the keys response and timestamp and no other, response being "Ranger！";
\* two such objects differ in the value of timestamp at most.
C5_JsonShape ==
    /\ \A i \in JsonCalls :
           Returned(i) /\ Len(calls[i].content) = 1 /\ IsJsonObject(OnlyText(i))
    /\ LET object == [i \in JsonCalls |-> JsonLoads(OnlyText(i))]
       IN /\ \A i \in JsonCalls :
                 /\ Len(object[i]) = 2
                 /\ Keys(object[i]) = {"response", "timestamp"}
                 /\ Get(object[i], "response") = StrValue(RangerText)
                 /\ Get(object[i], "timestamp").tag = "str"
          /\ \A i, j \in JsonCalls :
                 WithoutKey(object[i], "timestamp") = WithoutKey(object[j], "timestamp")

C5_Witness ==
    \E i, j \in JsonCalls :
        /\ calls[i].tool = "ranger_json"
        /\ Selected(j, "json")
        /\ OnlyText(i) # OnlyText(j)

\* C6: a call that returns a response has emitted exactly one log record, and
\* emitted it before returning; the record's level is INFO and its message is not
\* empty. At any time the calls' records are as many as the calls that returned.
C6_OneRecordPerCall ==
    /\ \A i \in DOMAIN calls :
           Returned(i) =>
               /\ Cardinality(LogEntriesOf(i)) = 1
               /\ \A k \in LogEntriesOf(i) :
                      LET fields == LogFields(k)
                      IN /\ k <= calls[i].stderrLen
                         /\ Get(fields, "level") = StrValue("INFO")
                         /\ Get(fields, "message").tag = "str"
                         /\ Get(fields, "message").s # ""
    /\ Cardinality({k \in 1..Len(stderr) : stderr[k].kind = "log" /\ stderr[k].call # 0})
           = Cardinality({i \in DOMAIN calls : Returned(i)})

C6_Witness ==
    \E i, j \in DOMAIN calls : i # j /\ Returned(i) /\ Returned(j) /\ calls[i].tool # calls[j].tool

\* C7: the record a call emits carries the call's arguments as fields of the JSON
\* line: any_request(request="hello", ...) returns the one text "Ranger！" and emits
\* a record with request = "hello" and args = the extra arguments as a string;
\* ranger_with_input emits input, ranger_with_options option, ranger_with_params
\* param1, param2 and param3.
C7_ArgumentsInRecord ==
    \A i \in DOMAIN calls :
        LET c == calls[i]
            Carries(key, value) ==
                \E k \in LogEntriesOf(i) :
                    HasKey(LogFields(k), key) /\ Get(LogFields(k), key) = value
        IN /\ (c.tool = "any_request" /\ c.args.request = Hello) =>
                  /\ c.content = <<[type |-> "text", text |-> RangerText]>>
                  /\ Cardinality(LogEntriesOf(i)) = 1
                  /\ Carries("request", Hello)
                  /\ Carries("args", StrValue(PyStr(c.args.kwargs)))
           /\ (c.tool = "ranger_with_input" /\ Returned(i)) =>
                  Carries("input", c.args.input_text)
           /\ (c.tool = "ranger_with_options" /\ Returned(i)) =>
                  Carries("option", Bind(c.args.option_type, StrValue("simple")))
           /\ (c.tool = "ranger_with_params" /\ Returned(i)) =>
                  /\ Carries("param1", Bind(c.args.param1, NoneValue))
                  /\ Carries("param2", Bind(c.args.param2, NoneValue))
                  /\ Carries("param3", StrValue(PyStr(Bind(c.args.param3, NoneValue))))

\* C8 as stated: the process ends in two ways only, by a user interrupt (logged,
\* the shutdown banner printed, exit code 0) or by an exception out of the serve
\* loop (logged as an error, exit code 1); otherwise it does not terminate.
C8_OnlyTwoWaysToEnd ==
    /\ pc = "exited" => exit.cause \in {"KeyboardInterrupt", "Exception"}
    /\ exit.cause = "KeyboardInterrupt" => exit.code = 0
    /\ exit.cause = "Exception" => exit.code = 1

LastIsLog(level, prefix) ==
    /\ Len(stderr) > 0
    /\ stderr[Len(stderr)].kind = "log"
    /\ LET fields == LogFields(Len(stderr))
       IN /\ Get(fields, "level") = StrValue(level)
          /\ IsPrefix(prefix, Get(fields, "message").s)

\* C8 as amended: a user interrupt is logged, the shutdown banner is printed and
\* the exit code is 0; an Exception out of the serve loop is logged as an error
\* and the exit code is 1; when the serve loop returns, the process ends with
\* exit code 0 and neither the log record nor the banner of a shutdown; any other
\* exception is not caught and nothing is logged for it; and the process ends in
\* no other way.
C8_Lifecycle ==
    /\ (pc = "exited") = (exit # NotExited)
    /\ pc = "exited" => exit.cause \in {"KeyboardInterrupt", "Exception", "return", "BaseException"}
    /\ exit.cause = "KeyboardInterrupt" =>
           /\ exit.code = 0
           /\ Len(stderr) >= 2
           /\ stderr[Len(stderr)] = PrintLine(ShutdownBanner)
           /\ stderr[Len(stderr) - 1].kind = "log"
           /\ LET fields == LogFields(Len(stderr) - 1)
              IN /\ Get(fields, "level") = StrValue("INFO")
                 /\ Get(fields, "message") = StrValue("Server stopped by user")
    /\ exit.cause = "Exception" =>
           /\ exit.code = 1
           /\ LastIsLog("ERROR", "Failed to start server: ")
    /\ exit.cause = "return" =>
           /\ exit.code = 0
           /\ Printed(ShutdownBanner) = {}
           /\ ~LastIsLog("INFO", "Server stopped by user")
    /\ exit.cause = "BaseException" =>
           /\ stderr[Len(stderr)].kind = "traceback"
           /\ Printed(ShutdownBanner) = {}

C8_Witness == pc = "exited" /\ exit.cause = "return" /\ exit.code = 0 /\ Len(calls) > 0

\* C9: the tools keep no state: a call's response, the timestamp aside, is the
\* response of every other call of the same tool with the same arguments, whatever
\* was called before, and every call contributes exactly one log record, its own.
C9_Stateless ==
    \A i \in DOMAIN calls :
        /\ Cardinality(LogEntriesOf(i)) = 1
        /\ \A j \in DOMAIN calls :
               (calls[j].tool = calls[i].tool /\ calls[j].args = calls[i].args) =>
                   /\ calls[j].outcome = calls[i].outcome
                   /\ Len(calls[j].content) = Len(calls[i].content)
                   /\ (i \notin JsonCalls /\ Returned(i)) => calls[j].content = calls[i].content

\* C10: the startup banner is printed once, and only when the runtime has started;
\* the shutdown banner is printed at most once, and only after a user interrupt;
\* when the process ends with exit code 1 no banner follows the failure.
C10_Banners ==
    /\ Cardinality(Printed(StartupBanner)) <= 1
    /\ pc = "serving" => Cardinality(Printed(StartupBanner)) = 1
    /\ (exit.cause = "Exception" /\ exit.at = "run") => Printed(StartupBanner) = {}
    /\ Cardinality(Printed(ShutdownBanner)) <= 1
    /\ Printed(ShutdownBanner) # {} => exit.cause = "KeyboardInterrupt"
    /\ (exit.cause = "Exception") => stderr[Len(stderr)].kind = "log"

====
